---- MODULE Spec2Model ----
(***************************************************************************)
(* Model of streamlit_app.py: the button-triggered analysis run (fetch     *)
(* loop, alignment, return calculation, rolling correlation, multi-        *)
(* frequency correlations, risk stage) and the series arithmetic of the    *)
(* rolling correlation and of the portfolio series.                        *)
(***************************************************************************)
EXTENDS Integers, Sequences, FiniteSets, TLC

VARIABLES
    riskfolio_available, \* module flag set by the import probe (lines 8-12)
    tickers,             \* the multiselect's value, in selection order
    pc,                  \* position of the script run
    i,                   \* 1-based position of the fetch loop in tickers
    downloaded,          \* ticker -> table yf.download returned in this run
    data,                \* the dict data: ticker -> squeezed price column
    log,                 \* what the run has rendered with st.* so far
    df,                  \* the aligned price panel
    returns,             \* the returns panel
    window,              \* the rolling-window slider's value
    series_a,            \* returns[tickers[0]] as numbers, one per row
    series_b,            \* returns[tickers[1]] as numbers, one per row
    roll_corr,           \* the rolling correlation of line 77
    rolling_chart,       \* roll_corr.dropna(), the series line 78 charts
    rollpc,              \* position in lines 77-78
    port_returns,        \* the returns panel as numbers, handed to the optimizer
    w,                   \* the weight vector of port.optimization
    weighted_returns,    \* line 135
    cumulative_returns,  \* line 136
    drawdown,            \* line 141
    portpc               \* position in lines 131-141

runVars == <<riskfolio_available, tickers, pc, i, downloaded, data, log, df, returns>>

rollVars == <<window, series_a, series_b, roll_corr, rolling_chart, rollpc>>

portVars == <<port_returns, w, weighted_returns, cumulative_returns, drawdown, portpc>>

vars == <<runVars, rollVars, portVars>>

----------------------------------------------------------------------------
(* Bounds *)

\* Calendar days the provider can return rows for.
MaxDates == 4

Dates == 1..MaxDates

\* Rolling correlation: the windows modelled are the slider's smallest,
\* window_min .. window_min + MaxWindowSteps, on panels of up to
\* MaxExtraRows rows more than the largest of them.
MaxWindowSteps == 1

MaxExtraRows == 2

\* Portfolio series: rows of the returns panel.
MaxPortRows == 3

\* A return is a whole number of 1/RetScale, a weight of 1/WScale.
RetScale == 2

WScale == 2

----------------------------------------------------------------------------
(* Widgets and provider answers *)

\* The multiselect's options (the first two of the source's eight).
ticker_options == <<"ANET", "FN">>

Range(s) == {s[k] : k \in DOMAIN s}

\* The values a multiselect can hold: the options chosen, each once, in the
\* order the user chose them.
Selections ==
    {s \in UNION {[1..n -> Range(ticker_options)] : n \in 0..Len(ticker_options)} :
        \A a, b \in DOMAIN s : a # b => s[a] # s[b]}

NaN == "NaN"

\* The slider of line 25: slider(label, min, max, default).
window_min == 20

window_max == 180

window_default == 60

\* Column sets of a table of yf.download.
ColumnSets == {{"Adj Close", "Close", "Volume"}, {"Close", "Volume"}, {"Volume"}}

\* A table of yf.download: its rows' dates and its columns.  A cell holds the
\* price of its column on its date, written as the column's name.
\* With no rows the provider returns its usual columns over an empty index.
Tables ==
    [index : {{}}, columns : {{"Adj Close", "Close", "Volume"}}]
        \cup [index : (SUBSET Dates) \ {{}}, columns : ColumnSets]

\* DataFrame.empty: an axis of length 0.
Empty(stock) == stock.index = {} \/ stock.columns = {}

\* stock[col]: the column as a Series over the table's index.
Column(stock, col) == [scalar |-> FALSE, values |-> [d \in stock.index |-> col]]

\* Series.squeeze(): a Series of one element becomes that element, a scalar
\* that no longer carries its date.
Squeeze(series) ==
    IF Cardinality(DOMAIN series.values) = 1
    THEN [scalar |-> TRUE, values |-> series.values]
    ELSE series

\* The element of a squeezed one-element Series.
ScalarValue(s) == s.values[CHOOSE d \in DOMAIN s.values : TRUE]

Msg(kind, ticker) == [kind |-> kind, ticker |-> ticker]

----------------------------------------------------------------------------
(* Fetch loop body, lines 34-46 *)

SelectPriceNoEmptyCheck(d, l, ticker, stock) ==
    IF "Adj Close" \in stock.columns
    THEN [data |-> (ticker :> Squeeze(Column(stock, "Adj Close"))) @@ d, log |-> l]
    ELSE IF "Close" \in stock.columns
    THEN [data |-> (ticker :> Squeeze(Column(stock, "Close"))) @@ d,
          log |-> l \cup {Msg("warning: missing Adj Close, using Close", ticker)}]
    ELSE [data |-> d, log |-> l \cup {Msg("error: no valid price columns", ticker)}]

SelectPricePreferClose(d, l, ticker, stock) ==
    IF ~Empty(stock)
    THEN IF "Close" \in stock.columns
         THEN [data |-> (ticker :> Squeeze(Column(stock, "Close"))) @@ d,
               log |-> l \cup {Msg("warning: missing Adj Close, using Close", ticker)}]
         ELSE IF "Adj Close" \in stock.columns
         THEN [data |-> (ticker :> Squeeze(Column(stock, "Adj Close"))) @@ d, log |-> l]
         ELSE [data |-> d, log |-> l \cup {Msg("error: no valid price columns", ticker)}]
    ELSE [data |-> d, log |-> l \cup {Msg("error: returned no data", ticker)}]

\* The if/elif/else of lines 37-46 on the table just downloaded: the new
\* data dict and the messages rendered.
SelectPrice(d, l, ticker, stock) ==
    IF ~Empty(stock)
    THEN IF "Adj Close" \in stock.columns
         THEN [data |-> (ticker :> Squeeze(Column(stock, "Adj Close"))) @@ d, log |-> l]
         ELSE IF "Close" \in stock.columns
         THEN [data |-> (ticker :> Squeeze(Column(stock, "Close"))) @@ d,
               log |-> l \cup {Msg("warning: missing Adj Close, using Close", ticker)}]
         ELSE [data |-> d, log |-> l \cup {Msg("error: no valid price columns", ticker)}]
    ELSE [data |-> d, log |-> l \cup {Msg("error: returned no data", ticker)}]

----------------------------------------------------------------------------
(* Alignment and returns, lines 51 and 56 *)

NoFrame == [columns |-> {}, rows |-> <<>>]

\* pd.DataFrame(data) raises ValueError when every value is a scalar.
AllScalars(d) == \A t \in DOMAIN d : d[t].scalar

\* pd.DataFrame(data): the index is the union of the Series' indexes; a
\* Series has NaN where it has no row and a scalar is broadcast to every row.
DataFrame(d) ==
    LET index == UNION {DOMAIN d[t].values : t \in {u \in DOMAIN d : ~d[u].scalar}}
    IN  [columns |-> DOMAIN d,
         rows |-> [day \in index |->
                    [t \in DOMAIN d |->
                        IF d[t].scalar THEN ScalarValue(d[t])
                        ELSE IF day \in DOMAIN d[t].values THEN d[t].values[day]
                        ELSE NaN]]]

\* DataFrame.dropna(): the rows with no NaN cell.
dropna(frame) ==
    [columns |-> frame.columns,
     rows |-> [day \in {x \in DOMAIN frame.rows :
                          \A t \in frame.columns : frame.rows[x][t] # NaN}
               |-> frame.rows[day]]]

\* DataFrame.pct_change(): NaN in the first row, the change from the row
\* before in every other row.
pct_change(frame) ==
    [columns |-> frame.columns,
     rows |-> [day \in DOMAIN frame.rows |->
                [t \in frame.columns |->
                    IF \A x \in DOMAIN frame.rows : day <= x THEN NaN ELSE "return"]]]

----------------------------------------------------------------------------
(* The script run *)

Rest == {"idle", "done", "crashed"}

StageEvents ==
    {"prices chart", "correlation matrix", "heatmap", "csv download",
     "rolling correlation", "multi-frequency correlations"}

RiskEvents ==
    {"risk table", "weights", "cumulative returns", "drawdown", "rebalanced returns"}

Say(kinds) == {Msg(k, "") : k \in kinds}

\* The sub-models of the series arithmetic, at rest.
RollIdle ==
    /\ window = window_default
    /\ series_a = <<>>
    /\ series_b = <<>>
    /\ roll_corr = <<>>
    /\ rolling_chart = <<>>
    /\ rollpc = "off"

PortIdle ==
    /\ port_returns = <<>>
    /\ w = <<>>
    /\ weighted_returns = <<>>
    /\ cumulative_returns = <<>>
    /\ drawdown = <<>>
    /\ portpc = "off"

\* The script's first run, button unpressed, the library importable.
RunIdle ==
    /\ riskfolio_available = TRUE
    /\ tickers = ticker_options
    /\ pc = "idle"
    /\ i = 1
    /\ downloaded = <<>>
    /\ data = <<>>
    /\ log = Say({"info: select tickers and press Run Analysis"})
    /\ df = NoFrame
    /\ returns = NoFrame

Init ==
    /\ RollIdle
    /\ PortIdle
    /\ riskfolio_available \in BOOLEAN
    /\ tickers = ticker_options
    /\ pc = "idle"
    /\ i = 1
    /\ downloaded = <<>>
    /\ data = <<>>
    /\ log = Say({"info: select tickers and press Run Analysis"})
    /\ df = NoFrame
    /\ returns = NoFrame

\* A change of the multiselect reruns the script with the button unpressed
\* (lines 22, 150-151).
SelectTickers ==
    /\ pc \in Rest
    /\ \E sel \in Selections : tickers' = sel
    /\ pc' = "idle"
    /\ i' = 1
    /\ downloaded' = <<>>
    /\ data' = <<>>
    /\ log' = Say({"info: select tickers and press Run Analysis"})
    /\ df' = NoFrame
    /\ returns' = NoFrame
    /\ UNCHANGED riskfolio_available
    /\ UNCHANGED <<rollVars, portVars>>

\* The button press starts a run (lines 28-30).
RunAnalysis ==
    /\ pc \in Rest
    /\ pc' = "fetch"
    /\ i' = 1
    /\ downloaded' = <<>>
    /\ data' = <<>>
    /\ log' = {}
    /\ df' = NoFrame
    /\ returns' = NoFrame
    /\ UNCHANGED <<riskfolio_available, tickers>>
    /\ UNCHANGED <<rollVars, portVars>>

\* One iteration of the fetch loop (lines 33-46).
Download ==
    /\ pc = "fetch"
    /\ i <= Len(tickers)
    /\ \E stock \in Tables :
        LET ticker == tickers[i]
            sel == SelectPrice(data, log \cup {Msg("write: downloading", ticker)},
                               ticker, stock)
        IN  /\ downloaded' = (ticker :> stock) @@ downloaded
            /\ data' = sel.data
            /\ log' = sel.log
    /\ i' = i + 1
    /\ UNCHANGED <<riskfolio_available, tickers, pc, df, returns>>
    /\ UNCHANGED <<rollVars, portVars>>

EmptyCheckOnSelection(d, sel) == Len(sel) = 0

\* len(data) == 0, line 48.
NoData(d, sel) == Cardinality(DOMAIN d) = 0

\* The end of the loop and the test of line 48.
LoopExit ==
    /\ pc = "fetch"
    /\ i > Len(tickers)
    /\ IF NoData(data, tickers)
       THEN /\ log' = log \cup Say({"error: no valid data downloaded"})
            /\ pc' = "success"
       ELSE /\ log' = log
            /\ pc' = "align"
    /\ UNCHANGED <<riskfolio_available, tickers, i, downloaded, data, df, returns>>
    /\ UNCHANGED <<rollVars, portVars>>

\* Lines 51-53.
Align ==
    /\ pc = "align"
    /\ IF AllScalars(data)
       THEN /\ pc' = "crashed"
            /\ UNCHANGED <<df, log>>
       ELSE /\ df' = dropna(DataFrame(data))
            /\ log' = log \cup Say({"prices chart"})
            /\ pc' = "returns"
    /\ UNCHANGED <<riskfolio_available, tickers, i, downloaded, data, returns>>
    /\ UNCHANGED <<rollVars, portVars>>

\* Lines 56-72.
ReturnsCorr ==
    /\ pc = "returns"
    /\ returns' = dropna(pct_change(df))
    /\ log' = log \cup Say({"correlation matrix", "heatmap", "csv download"})
    /\ pc' = "rolling"
    /\ UNCHANGED <<riskfolio_available, tickers, i, downloaded, data, df>>
    /\ UNCHANGED <<rollVars, portVars>>

\* Lines 75-78: returns[tickers[0]] and returns[tickers[1]] raise KeyError
\* for a ticker that is no column.
Rolling ==
    /\ pc = "rolling"
    /\ IF Len(tickers) >= 2
       THEN IF tickers[1] \in returns.columns /\ tickers[2] \in returns.columns
            THEN /\ log' = log \cup Say({"rolling correlation"})
                 /\ pc' = "multifreq"
            ELSE /\ pc' = "crashed"
                 /\ log' = log
       ELSE /\ log' = log
            /\ pc' = "multifreq"
    /\ UNCHANGED <<riskfolio_available, tickers, i, downloaded, data, df, returns>>
    /\ UNCHANGED <<rollVars, portVars>>

\* Lines 81-120.
MultiFreq ==
    /\ pc = "multifreq"
    /\ log' = log \cup Say({"multi-frequency correlations"})
    /\ pc' = "risk"
    /\ UNCHANGED <<riskfolio_available, tickers, i, downloaded, data, df, returns>>
    /\ UNCHANGED <<rollVars, portVars>>

RiskBranchWarnInside(avail, sel) ==
    IF avail /\ Len(sel) > 1 THEN RiskEvents
    ELSE IF ~avail /\ Len(sel) > 1 THEN {"warning: install riskfolio-lib"}
    ELSE {}

\* The if/elif of lines 123-148: what the risk stage renders.
RiskBranch(avail, sel) ==
    IF avail /\ Len(sel) > 1 THEN RiskEvents
    ELSE IF ~avail THEN {"warning: install riskfolio-lib"}
    ELSE {}

Risk ==
    /\ pc = "risk"
    /\ log' = log \cup Say(RiskBranch(riskfolio_available, tickers))
    /\ pc' = "success"
    /\ UNCHANGED <<riskfolio_available, tickers, i, downloaded, data, df, returns>>
    /\ UNCHANGED <<rollVars, portVars>>

\* Line 149.
Success ==
    /\ pc = "success"
    /\ log' = log \cup Say({"success: analysis complete"})
    /\ pc' = "done"
    /\ UNCHANGED <<riskfolio_available, tickers, i, downloaded, data, df, returns>>
    /\ UNCHANGED <<rollVars, portVars>>

Next ==
    \/ SelectTickers
    \/ RunAnalysis
    \/ Download
    \/ LoopExit
    \/ Align
    \/ ReturnsCorr
    \/ Rolling
    \/ MultiFreq
    \/ Risk
    \/ Success

Spec == Init /\ [][Next]_vars

----------------------------------------------------------------------------
(* Properties of the run *)

Kinds(l) == {m.kind : m \in l}

\* The tickers the fetch loop has processed in this run.
Processed == {tickers[k] : k \in 1..(i - 1)}

HasPriceColumn(stock) == stock.columns \cap {"Adj Close", "Close"} # {}

\* The run has passed the fetch loop.
PastLoop == pc \in {"align", "returns", "rolling", "multifreq", "risk", "success", "done", "crashed"}

\* C1: a symbol whose fetch returned zero rows is reported with a per-symbol
\* failure and is not in the collected data, the loop processes every
\* selected symbol, and every symbol that returned rows with a usable price
\* column is in the collected data, whatever the other symbols did.
C1_FailedSymbolSkippedLoopContinues ==
    /\ \A t \in Processed :
        /\ t \in DOMAIN downloaded
        /\ Empty(downloaded[t]) =>
            /\ Msg("error: returned no data", t) \in log
            /\ t \notin DOMAIN data
        /\ (~Empty(downloaded[t]) /\ HasPriceColumn(downloaded[t])) => t \in DOMAIN data
    /\ PastLoop => Processed = Range(tickers)

C1_Witness ==
    /\ pc = "align"
    /\ Len(tickers) = 2
    /\ Empty(downloaded[tickers[1]])
    /\ Msg("error: returned no data", tickers[1]) \in log
    /\ DOMAIN data = {tickers[2]}

\* C2: when the collected data is empty after the loop (every symbol failed,
\* or none was selected), the run reports the fatal condition and runs no
\* alignment, return, correlation, export, rolling, multi-frequency or risk
\* stage.
C2_NoDataHalts ==
    /\ (pc \in {"success", "done"} /\ DOMAIN data = {}) =>
        /\ "error: no valid data downloaded" \in Kinds(log)
        /\ Kinds(log) \cap (StageEvents \cup RiskEvents) = {}
        /\ df = NoFrame
        /\ returns = NoFrame
    /\ pc \in {"align", "returns", "rolling", "multifreq", "risk"} => DOMAIN data # {}

C2_Witness ==
    /\ pc = "done"
    /\ Len(tickers) = 2
    /\ DOMAIN data = {}
    /\ "error: no valid data downloaded" \in Kinds(log)

\* C3: when at least one symbol was fetched and the aligned panel has no
\* date, the run stops before the return calculation: none of the stages
\* after the alignment runs.
C3_EmptyOverlapHalts ==
    ("prices chart" \in Kinds(log) /\ DOMAIN df.rows = {}) =>
        Kinds(log) \cap ((StageEvents \ {"prices chart"}) \cup RiskEvents) = {}

\* The stages before the risk stage that a run with this selection renders.
EarlyStages(sel) ==
    {"prices chart", "correlation matrix", "heatmap", "csv download",
     "multi-frequency correlations"}
        \cup (IF Len(sel) >= 2 THEN {"rolling correlation"} ELSE {})

\* The run has passed the risk stage.
PastRisk == pc \in {"success", "done"} /\ DOMAIN data # {}

\* C4: without the analytics capability a run that reaches the risk stage
\* renders the warning and none of the risk outputs; the stages before it
\* and the completion message are those of the selection alone, the same
\* with and without the capability.
C4_RiskStageDegrades ==
    PastRisk =>
        /\ Kinds(log) \cap StageEvents = EarlyStages(tickers)
        /\ pc = "done" => "success: analysis complete" \in Kinds(log)
        /\ ~riskfolio_available =>
            /\ "warning: install riskfolio-lib" \in Kinds(log)
            /\ Kinds(log) \cap RiskEvents = {}

C4_Witness ==
    /\ pc = "done"
    /\ ~riskfolio_available
    /\ Len(tickers) = 1
    /\ "warning: install riskfolio-lib" \in Kinds(log)
    /\ "multi-frequency correlations" \in Kinds(log)

\* C5: the aligned panel holds a date if and only if every fetched symbol
\* has a price on that date.
C5_PanelIsIntersection ==
    "prices chart" \in Kinds(log) =>
        \A day \in Dates :
            day \in DOMAIN df.rows <=> \A t \in DOMAIN data : day \in downloaded[t].index

\* C6: for a symbol whose table has rows, the adjusted close is stored and
\* no substitution warning is rendered when the column is present; the raw
\* close is stored with a warning naming the symbol when only it is
\* present; with neither the symbol is reported failed and nothing stored.
C6_PriceColumnPolicy ==
    \A t \in Processed :
        LET stock == downloaded[t]
            warned == Msg("warning: missing Adj Close, using Close", t) \in log
            stored(col) ==
                /\ t \in DOMAIN data
                /\ DOMAIN data[t].values = stock.index
                /\ \A day \in stock.index : data[t].values[day] = col
        IN  ~Empty(stock) =>
                /\ "Adj Close" \in stock.columns => stored("Adj Close") /\ ~warned
                /\ ("Adj Close" \notin stock.columns /\ "Close" \in stock.columns) =>
                        stored("Close") /\ warned
                /\ ~HasPriceColumn(stock) =>
                        /\ Msg("error: no valid price columns", t) \in log
                        /\ t \notin DOMAIN data

C6_Witness ==
    /\ pc = "align"
    /\ Len(tickers) = 2
    /\ downloaded[tickers[1]].columns = {"Close", "Volume"}
    /\ Msg("warning: missing Adj Close, using Close", tickers[1]) \in log
    /\ downloaded[tickers[1]].index = {1, 2}
    /\ tickers[1] \in DOMAIN data
    /\ \A day \in {1, 2} : data[tickers[1]].values[day] = "Close"
    /\ downloaded[tickers[2]].columns = {"Adj Close", "Close", "Volume"}
    /\ downloaded[tickers[2]].index = {2, 3}
    /\ tickers[2] \in DOMAIN data
    /\ \A day \in {2, 3} : data[tickers[2]].values[day] = "Adj Close"

\* C10: the symbols the rolling-correlation stage reads from the returns
\* panel are columns of it, and the risk stage runs only on a panel with at
\* least two symbols.
C10_StagesReadExistingColumns ==
    /\ (pc = "rolling" /\ Len(tickers) >= 2) =>
            {tickers[1], tickers[2]} \subseteq returns.columns
    /\ (pc = "risk" /\ riskfolio_available /\ Len(tickers) > 1) =>
            Cardinality(returns.columns) >= 2

----------------------------------------------------------------------------
(* Rolling correlation, lines 75-78 *)

Max(a, b) == IF a >= b THEN a ELSE b

\* The window sizes modelled: the smallest the slider can produce.
Windows == {W \in window_min..window_max : W <= window_min + MaxWindowSteps}

MaxRollRows == window_min + MaxWindowSteps + MaxExtraRows

\* A return series of n rows that is 0 everywhere but for a return of 1 on
\* row p (p = 0: no such row): the price does not move except on one day.
Spike(n, p) == [t \in 1..n |-> IF t = p THEN 1 ELSE 0]

RECURSIVE SumOver(_, _, _)
SumOver(f, lo, hi) == IF lo > hi THEN 0 ELSE f[hi] + SumOver(f, lo, hi - 1)

NaNPoint == [nan |-> TRUE, cov |-> 0, varprod |-> 0]

\* The correlation of x and y over rows lo..hi, as pandas computes it:
\* covariance over the root of the product of the variances, which is 0/0,
\* NaN, when either series is constant over the rows.  Kept as the scaled
\* covariance and the scaled product of the variances.
WindowCorr(x, y, lo, hi) ==
    LET n     == hi - lo + 1
        sx    == SumOver(x, lo, hi)
        sy    == SumOver(y, lo, hi)
        sxx   == SumOver([t \in DOMAIN x |-> x[t] * x[t]], lo, hi)
        syy   == SumOver([t \in DOMAIN y |-> y[t] * y[t]], lo, hi)
        sxy   == SumOver([t \in DOMAIN x |-> x[t] * y[t]], lo, hi)
        var_x == n * sxx - sx * sx
        var_y == n * syy - sy * sy
    IN  IF var_x * var_y = 0
        THEN NaNPoint
        ELSE [nan |-> FALSE, cov |-> n * sxy - sx * sy, varprod |-> var_x * var_y]

RollingCorrMinPeriodsOne(x, y, W) ==
    [t \in DOMAIN x |-> WindowCorr(x, y, Max(1, t - W + 1), t)]

\* x.rolling(W).corr(y): min_periods is W, so a row with fewer than W
\* trailing rows is NaN.
RollingCorr(x, y, W) ==
    [t \in DOMAIN x |-> IF t < W THEN NaNPoint ELSE WindowCorr(x, y, t - W + 1, t)]

\* Series.dropna().
SeriesDropna(s) == [t \in {x \in DOMAIN s : ~s[x].nan} |-> s[t]]

\* The two return series are inputs here; the script run is not part of
\* this sub-model and stays at rest.
InitRoll ==
    /\ RunIdle
    /\ PortIdle
    /\ window \in Windows
    /\ \E n \in 0..MaxRollRows : \E p, q \in 0..n :
        /\ series_a = Spike(n, p)
        /\ series_b = Spike(n, q)
    /\ roll_corr = <<>>
    /\ rolling_chart = <<>>
    /\ rollpc = "corr"

\* Line 77.
ComputeRollCorr ==
    /\ rollpc = "corr"
    /\ roll_corr' = RollingCorr(series_a, series_b, window)
    /\ rollpc' = "chart"
    /\ UNCHANGED <<window, series_a, series_b, rolling_chart>>
    /\ UNCHANGED <<runVars, portVars>>

\* Line 78.
ChartRollCorr ==
    /\ rollpc = "chart"
    /\ rolling_chart' = SeriesDropna(roll_corr)
    /\ rollpc' = "charted"
    /\ UNCHANGED <<window, series_a, series_b, roll_corr>>
    /\ UNCHANGED <<runVars, portVars>>

NextRoll ==
    \/ ComputeRollCorr
    \/ ChartRollCorr

SpecRoll == InitRoll /\ [][NextRoll]_vars

\* Some full window in which one of the two series does not vary.
FlatWindow ==
    \E t \in window..Len(series_a) :
        \/ \A u \in (t - window + 1)..t : series_a[u] = series_a[t]
        \/ \A u \in (t - window + 1)..t : series_b[u] = series_b[t]

\* C7 as stated: the charted rolling correlation has exactly
\* max(N - W + 1, 0) points, the first W - 1 dates being omitted.
C7_ExactlyFullWindows ==
    rollpc = "charted" =>
        /\ Cardinality(DOMAIN rolling_chart) = Max(Len(series_a) - window + 1, 0)
        /\ \A t \in DOMAIN rolling_chart : t >= window

\* C7 as amended: the charted rolling correlation has at most
\* max(N - W + 1, 0) points, none on the first W - 1 dates, and exactly that
\* many when neither series is constant over any full window.
C7_AtMostFullWindows ==
    rollpc = "charted" =>
        /\ Cardinality(DOMAIN rolling_chart) <= Max(Len(series_a) - window + 1, 0)
        /\ \A t \in DOMAIN rolling_chart : t >= window
        /\ ~FlatWindow =>
            Cardinality(DOMAIN rolling_chart) = Max(Len(series_a) - window + 1, 0)

C7_Witness ==
    /\ rollpc = "charted"
    /\ Len(series_a) = window + 2
    /\ DOMAIN rolling_chart = {window, window + 1}

C7_WitnessAllDefined ==
    /\ rollpc = "charted"
    /\ Len(series_a) = window + 1
    /\ ~FlatWindow
    /\ DOMAIN rolling_chart = {window, window + 1}

----------------------------------------------------------------------------
(* Portfolio series, lines 131-142 *)

\* Exact fractions [num, den], den > 0 unless a division by zero made it 0.
Abs(a) == IF a < 0 THEN -a ELSE a

RECURSIVE GCD(_, _)
GCD(a, b) == IF b = 0 THEN a ELSE GCD(b, a % b)

Gcd1(a, b) == LET g == GCD(Abs(a), Abs(b)) IN IF g = 0 THEN 1 ELSE g

Norm(r) ==
    LET g == Gcd1(r.num, r.den)
        sgn == IF r.den < 0 THEN -1 ELSE 1
    IN  [num |-> sgn * (r.num \div g), den |-> sgn * (r.den \div g)]

Frac(n, d) == Norm([num |-> n, den |-> d])

FracAdd(a, b) == Frac(a.num * b.den + b.num * a.den, a.den * b.den)

FracSub(a, b) == Frac(a.num * b.den - b.num * a.den, a.den * b.den)

FracMul(a, b) == Frac(a.num * b.num, a.den * b.den)

FracDiv(a, b) == Frac(a.num * b.den, a.den * b.num)

FracLeq(a, b) == a.num * b.den <= b.num * a.den

\* The tickers of the panel handed to the optimizer.
Assets == Range(ticker_options)

\* Returns of positive prices are above -1: price[t] / price[t-1] - 1.
ReturnValues == (1 - RetScale)..1

ReturnPanels == UNION {[1..n -> [Assets -> ReturnValues]] : n \in 0..MaxPortRows}

RECURSIVE SumSet(_, _)
SumSet(f, S) ==
    IF S = {} THEN 0
    ELSE LET a == CHOOSE x \in S : TRUE IN f[a] + SumSet(f, S \ {a})

\* What the optimization returns: weights that are not negative and sum
\* to 1 (in units of 1/WScale).
WeightVectors == {v \in [Assets -> 0..WScale] : SumSet(v, Assets) = WScale}

\* Lines 134-135: w[w > 0] masks the weights' frame and keeps its index, so
\* port_weights names every asset; each row's returns times the weights,
\* summed.
WeightedReturns(panel, wv) ==
    [t \in DOMAIN panel |->
        Frac(SumSet([a \in Assets |-> wv[a] * panel[t][a]], Assets), RetScale * WScale)]

RECURSIVE cumsum(_)
cumsum(s) ==
    IF Len(s) = 0 THEN <<>>
    ELSE LET prev == cumsum(SubSeq(s, 1, Len(s) - 1))
         IN  Append(prev, IF Len(prev) = 0 THEN s[Len(s)]
                          ELSE FracAdd(prev[Len(prev)], s[Len(s)]))

\* Series.cumprod().
RECURSIVE cumprod(_)
cumprod(s) ==
    IF Len(s) = 0 THEN <<>>
    ELSE LET prev == cumprod(SubSeq(s, 1, Len(s) - 1))
         IN  Append(prev, IF Len(prev) = 0 THEN s[Len(s)]
                          ELSE FracMul(prev[Len(prev)], s[Len(s)]))

RECURSIVE cummin(_)
cummin(s) ==
    IF Len(s) = 0 THEN <<>>
    ELSE LET prev == cummin(SubSeq(s, 1, Len(s) - 1))
         IN  Append(prev, IF Len(prev) = 0 \/ FracLeq(s[Len(s)], prev[Len(prev)])
                          THEN s[Len(s)] ELSE prev[Len(prev)])

\* Series.cummax().
RECURSIVE cummax(_)
cummax(s) ==
    IF Len(s) = 0 THEN <<>>
    ELSE LET prev == cummax(SubSeq(s, 1, Len(s) - 1))
         IN  Append(prev, IF Len(prev) = 0 \/ FracLeq(prev[Len(prev)], s[Len(s)])
                          THEN s[Len(s)] ELSE prev[Len(prev)])

\* Line 136: (1 + weighted_returns).cumprod().
CumulativeReturns(wr) == cumprod([t \in DOMAIN wr |-> FracAdd(Frac(1, 1), wr[t])])

\* Line 141: (cumulative - cumulative.cummax()) / cumulative.cummax().
Drawdown(cum) ==
    LET peak == cummax(cum)
    IN  [t \in DOMAIN cum |-> FracDiv(FracSub(cum[t], peak[t]), peak[t])]

\* The returns panel is an input here; the script run is not part of this
\* sub-model and stays at rest, with the analytics library importable.
InitPort ==
    /\ RunIdle
    /\ RollIdle
    /\ port_returns \in ReturnPanels
    /\ w = <<>>
    /\ weighted_returns = <<>>
    /\ cumulative_returns = <<>>
    /\ drawdown = <<>>
    /\ portpc = "optimize"

\* Line 131: the optimizer's answer.
Optimization ==
    /\ portpc = "optimize"
    /\ w' \in WeightVectors
    /\ portpc' = "weigh"
    /\ UNCHANGED <<port_returns, weighted_returns, cumulative_returns, drawdown>>
    /\ UNCHANGED <<runVars, rollVars>>

\* Lines 134-135.
WeighReturns ==
    /\ portpc = "weigh"
    /\ weighted_returns' = WeightedReturns(port_returns, w)
    /\ portpc' = "cumulate"
    /\ UNCHANGED <<port_returns, w, cumulative_returns, drawdown>>
    /\ UNCHANGED <<runVars, rollVars>>

\* Line 136.
Cumulate ==
    /\ portpc = "cumulate"
    /\ cumulative_returns' = CumulativeReturns(weighted_returns)
    /\ portpc' = "drawdown"
    /\ UNCHANGED <<port_returns, w, weighted_returns, drawdown>>
    /\ UNCHANGED <<runVars, rollVars>>

\* Line 141.
ComputeDrawdown ==
    /\ portpc = "drawdown"
    /\ drawdown' = Drawdown(cumulative_returns)
    /\ portpc' = "charted"
    /\ UNCHANGED <<port_returns, w, weighted_returns, cumulative_returns>>
    /\ UNCHANGED <<runVars, rollVars>>

NextPort ==
    \/ Optimization
    \/ WeighReturns
    \/ Cumulate
    \/ ComputeDrawdown

SpecPort == InitPort /\ [][NextPort]_vars

\* C8: every value of the drawdown series is less than or equal to 0.
C8_DrawdownNonPositive ==
    portpc = "charted" =>
        /\ Len(drawdown) = Len(port_returns)
        /\ \A t \in DOMAIN drawdown : drawdown[t].den > 0 /\ drawdown[t].num <= 0

C8_Witness ==
    /\ portpc = "charted"
    /\ Len(drawdown) = 3
    /\ drawdown[1].num = 0
    /\ drawdown[2].num < 0
    /\ drawdown[3].num < 0
    /\ FracLeq(drawdown[2], drawdown[3]) /\ drawdown[2] # drawdown[3]

NonDecreasing(s) == \A t \in 2..Len(s) : FracLeq(s[t - 1], s[t])

CumulativeDone == portpc \in {"drawdown", "charted"}

====
